---------------------------- MODULE Spec2Model ----------------------------
(***************************************************************************)
(* A model of react-use-local-storage-state (src/useLocalStorageState.ts): *)
(* the hook useLocalStorageState, the factory createLocalStorageStateHook, *)
(* the localStorage they talk to, and the part of React's render / effect  *)
(* scheduling the hook relies on (useState, useEffect).                    *)
(***************************************************************************)
EXTENDS Integers, Sequences, FiniteSets, TLC

\* ------------------------------------------------------------------ bounds
\* Numbers a component stores are 0..MaxNum.
MaxNum == 2
\* Updates that may wait in the update queue of SpecSingle and SpecUnavailable.
MaxQueue == 2
\* Updates that may wait in the update queues of Spec and SpecShared.
MaxShared == 1

\* ------------------------------------------------------------------ values
\* JavaScript values a component may hold: numbers, and an object with a
\* cyclic reference (JSON.stringify throws a TypeError on it).
Num(n) == [t |-> "number", n |-> n]
Cyclic == [t |-> "object", n |-> 0]
Nums == {Num(n) : n \in 0..MaxNum}
Vals == Nums \cup {Cyclic}

\* getItem's null: no entry under the key.
Absent == "<null>"
\* A stored text that is not JSON.
Corrupt == "{bad"
\* The texts a store entry may hold before the program first runs.
InitTexts == {Absent, Corrupt} \cup {ToString(n) : n \in 0..MaxNum}

\* The key of the availability probe and the text it writes.
testKey == "__test__"
testText == "1"
\* The identifiers components are given.
Keys == {"theme", testKey}

\* The two components of the model and "no component".
Comps == {"A", "B"}
NoComp == "-"

\* How localStorage behaves: it works; there is no window (server rendering);
\* removeItem throws; getItem throws; every call throws.
WindowModes == {"ok", "removeThrows", "getThrows", "allThrow"}
Modes == WindowModes \cup {"noWindow"}

\* initialValue: a literal, or a function producing it.
InitialValues == {[fn |-> f, v |-> Num(0)] : f \in BOOLEAN}

\* A SetStateAction: a literal value, or the updater c => c + 1.
Inc == [fn |-> TRUE, v |-> Num(1)]
Literal(v) == [fn |-> FALSE, v |-> v]
Updates == {Literal(v) : v \in Vals} \cup {Inc}

VARIABLES
    store,      \* localStorage: key -> text, or Absent
    mode,       \* how localStorage behaves now
    mounted,    \* component -> whether it is mounted
    key,        \* component -> the key prop of its last render
    state,      \* component -> the state useState returned at its last render
    persistent, \* component -> `persistent` of its last render
    queue,      \* component -> the setState calls not yet rendered
    pending,    \* component -> whether its effect is scheduled and has not run
    last,       \* the last step: who did what, the localStorage calls it
                \* made, whether an exception escaped, whether initialValue()
                \* was called, how many console.error calls it made, the
                \* queued updates a render applied, whether the render
                \* came with another key
    failed      \* component -> whether the last write its effect tried
                \* failed (JSON.stringify or setItem threw) and neither its
                \* state nor its key has changed since

vars == <<store, mode, mounted, key, state, persistent, queue, pending, last,
          failed>>

\* ------------------------------------------------------------ JSON, storage
\* JSON.stringify(state): the text of a number; throws on a cyclic object.
JSONstringify(v) ==
    IF v.t = "number"
    THEN [threw |-> FALSE, text |-> ToString(v.n)]
    ELSE [threw |-> TRUE, text |-> ""]

\* JSON.parse(item): the number a decimal text denotes; throws on other text.
JSONparse(text) ==
    IF \E n \in 0..MaxNum : ToString(n) = text
    THEN [threw |-> FALSE,
          value |-> Num(CHOOSE n \in 0..MaxNum : ToString(n) = text)]
    ELSE [threw |-> TRUE, value |-> Num(0)]

\* window.localStorage.setItem(k, text)
setItem(st, m, k, text) ==
    IF m \in {"allThrow", "noWindow"}
    THEN [threw |-> TRUE, store |-> st]
    ELSE [threw |-> FALSE, store |-> [st EXCEPT ![k] = text]]

\* window.localStorage.removeItem(k)
removeItem(st, m, k) ==
    IF m \in {"allThrow", "noWindow", "removeThrows"}
    THEN [threw |-> TRUE, store |-> st]
    ELSE [threw |-> FALSE, store |-> [st EXCEPT ![k] = Absent]]

\* window.localStorage.getItem(k)
getItem(st, m, k) ==
    IF m \in {"allThrow", "noWindow", "getThrows"}
    THEN [threw |-> TRUE, item |-> Absent]
    ELSE [threw |-> FALSE, item |-> st[k]]

\* ------------------------------------------------------------------ the hook
\* isLocalStorageAvailable(): write and delete the probe entry; any throw
\* gives false. The result, the store it leaves, the calls it made.
isLocalStorageAvailable(st, m) ==
    LET s == setItem(st, m, testKey, testText)
        r == removeItem(s.store, m, testKey)
    IN  IF s.threw
        THEN [ret |-> FALSE, store |-> st, calls |-> << <<"set", testKey>> >>]
        ELSE IF r.threw
        THEN [ret |-> FALSE, store |-> s.store,
              calls |-> << <<"set", testKey>>, <<"remove", testKey>> >>]
        ELSE [ret |-> TRUE, store |-> r.store,
              calls |-> << <<"set", testKey>>, <<"remove", testKey>> >>]

\* `persistent` computed at the first render only and remembered afterwards.
ProbeOnce(c, st, m) ==
    IF mounted[c]
    THEN [ret |-> persistent[c], store |-> st, calls |-> << >>]
    ELSE IF m = "noWindow"
    THEN [ret |-> FALSE, store |-> st, calls |-> << >>]
    ELSE isLocalStorageAvailable(st, m)

\* const persistent = typeof window !== "undefined" && isLocalStorageAvailable()
\* as the hook body computes it at the render of component c.
Probe(c, st, m) ==
    IF m = "noWindow"
    THEN [ret |-> FALSE, store |-> st, calls |-> << >>]
    ELSE isLocalStorageAvailable(st, m)

\* typeof initialValue === "function" ? initialValue() : initialValue
Resolve(iv, calls, logged) ==
    [threw |-> FALSE, value |-> iv.v, ran |-> iv.fn, calls |-> calls,
     logged |-> logged]

\* getStoredValue() with the entry read and then not used: the state is
\* always the resolved initialValue.
getStoredValueSkipsEntry(st, m, pers, k, iv) ==
    IF ~pers THEN Resolve(iv, << >>, 0)
    ELSE Resolve(iv, << <<"get", k>> >>, 0)

\* getStoredValue() without its try / catch: a throw of getItem or of
\* JSON.parse escapes.
getStoredValueNoCatch(st, m, pers, k, iv) ==
    LET g == getItem(st, m, k)
        p == JSONparse(g.item)
        c == << <<"get", k>> >>
    IN  IF ~pers THEN Resolve(iv, << >>, 0)
        ELSE IF g.threw THEN [Resolve(iv, c, 0) EXCEPT !.threw = TRUE]
        ELSE IF g.item = Absent THEN Resolve(iv, c, 0)
        ELSE IF p.threw THEN [Resolve(iv, c, 0) EXCEPT !.threw = TRUE]
        ELSE [threw |-> FALSE, value |-> p.value, ran |-> FALSE, calls |-> c,
              logged |-> 0]

\* getStoredValue() with no console.error in its catch.
getStoredValueSilent(st, m, pers, k, iv) ==
    LET g == getItem(st, m, k)
        p == JSONparse(g.item)
        c == << <<"get", k>> >>
    IN  IF ~pers THEN Resolve(iv, << >>, 0)
        ELSE IF g.threw THEN Resolve(iv, c, 0)
        ELSE IF g.item = Absent THEN Resolve(iv, c, 0)
        ELSE IF p.threw THEN Resolve(iv, c, 0)
        ELSE [threw |-> FALSE, value |-> p.value, ran |-> FALSE, calls |-> c,
              logged |-> 0]

\* getStoredValue() without its `if (!persistent)`: the entry is read
\* whatever the probe said.
getStoredValueReadsAlways(st, m, pers, k, iv) ==
    LET g == getItem(st, m, k)
        p == JSONparse(g.item)
        c == << <<"get", k>> >>
    IN  IF g.threw THEN Resolve(iv, c, 1)
        ELSE IF g.item = Absent THEN Resolve(iv, c, 0)
        ELSE IF p.threw THEN Resolve(iv, c, 1)
        ELSE [threw |-> FALSE, value |-> p.value, ran |-> FALSE, calls |-> c,
              logged |-> 0]

\* getStoredValue(): the initial state, whether an exception escaped, whether
\* initialValue() ran, the calls made and the console.error calls.
getStoredValue(st, m, pers, k, iv) ==
    LET g == getItem(st, m, k)
        p == JSONparse(g.item)
        c == << <<"get", k>> >>
    IN  IF ~pers THEN Resolve(iv, << >>, 0)
        ELSE IF g.threw THEN Resolve(iv, c, 1)
        ELSE IF g.item = Absent THEN Resolve(iv, c, 0)
        ELSE IF p.threw THEN Resolve(iv, c, 1)
        ELSE [threw |-> FALSE, value |-> p.value, ran |-> FALSE, calls |-> c,
              logged |-> 0]

\* A SetStateAction applied to the previous state.
ApplyUpdate(prev, u) == IF u.fn THEN Num(prev.n + 1) ELSE u.v

\* useState applying every queued updater to the state of the last render
\* instead of to the result of the updater before it.
RECURSIVE ReduceQueueStale(_, _)
ReduceQueueStale(s, q) ==
    IF q = << >> THEN s
    ELSE IF Len(q) = 1 THEN ApplyUpdate(s, Head(q))
    ELSE IF q[Len(q)].fn THEN ApplyUpdate(s, q[Len(q)])
    ELSE q[Len(q)].v

\* useState at a re-render: the queued updates applied in order, each to the
\* result of the one before.
RECURSIVE ReduceQueue(_, _)
ReduceQueue(s, q) ==
    IF q = << >> THEN s ELSE ReduceQueue(ApplyUpdate(s, Head(q)), Tail(q))

\* The effect without its `if (persistent)`: the write is always tried.
WriteBackAlways(st, m, pers, k, s) ==
    LET j == JSONstringify(s)
        w == setItem(st, m, k, j.text)
    IN  IF j.threw
        THEN [threw |-> FALSE, store |-> st, calls |-> << >>, failed |-> TRUE]
        ELSE [threw |-> FALSE, store |-> w.store,
              calls |-> << <<"set", k>> >>, failed |-> w.threw]

\* An effect that writes only when the key has no entry yet: the first write
\* wins.
WriteBackKeepsExisting(st, m, pers, k, s) ==
    LET j == JSONstringify(s)
        w == setItem(st, m, k, j.text)
    IN  IF ~pers \/ st[k] # Absent
        THEN [threw |-> FALSE, store |-> st, calls |-> << >>, failed |-> FALSE]
        ELSE IF j.threw
        THEN [threw |-> FALSE, store |-> st, calls |-> << >>, failed |-> TRUE]
        ELSE [threw |-> FALSE, store |-> w.store,
              calls |-> << <<"set", k>> >>, failed |-> w.threw]

\* The body of the effect: the store it leaves, the calls it made, whether
\* the write it tried failed (the catch swallows the exception).
WriteBack(st, m, pers, k, s) ==
    LET j == JSONstringify(s)
        w == setItem(st, m, k, j.text)
    IN  IF ~pers
        THEN [threw |-> FALSE, store |-> st, calls |-> << >>, failed |-> FALSE]
        ELSE IF j.threw
        THEN [threw |-> FALSE, store |-> st, calls |-> << >>, failed |-> TRUE]
        ELSE [threw |-> FALSE, store |-> w.store,
              calls |-> << <<"set", k>> >>, failed |-> w.threw]

\* --------------------------------------------------------------- the steps
Step(op, c, calls, threw, ran, logged) ==
    [op |-> op, c |-> c, calls |-> calls, threw |-> threw, ran |-> ran,
     logged |-> logged, updates |-> << >>, rekeyed |-> FALSE]

QueuedTotal == LET n(c) == Len(queue[c]) IN n("A") + n("B")

\* A first render after which React runs no effect.
MountNoEffect(c, k, iv) ==
    LET p == Probe(c, store, mode)
        g == getStoredValue(p.store, mode, p.ret, k, iv)
    IN  /\ ~mounted[c]
        /\ store' = p.store
        /\ mounted' = [mounted EXCEPT ![c] = ~g.threw]
        /\ key' = [key EXCEPT ![c] = k]
        /\ state' = [state EXCEPT ![c] = g.value]
        /\ persistent' = [persistent EXCEPT ![c] = p.ret]
        /\ pending' = [pending EXCEPT ![c] = FALSE]
        /\ last' = Step("mount", c, p.calls \o g.calls, g.threw, g.ran,
                        g.logged)
        /\ failed' = [failed EXCEPT ![c] = FALSE]
        /\ UNCHANGED <<mode, queue>>

\* A component mounts: the first call of useLocalStorageState(k, iv).
Mount(c, k, iv) ==
    LET p == Probe(c, store, mode)
        g == getStoredValue(p.store, mode, p.ret, k, iv)
    IN  /\ ~mounted[c]
        /\ store' = p.store
        /\ mounted' = [mounted EXCEPT ![c] = ~g.threw]
        /\ key' = [key EXCEPT ![c] = k]
        /\ state' = [state EXCEPT ![c] = g.value]
        /\ persistent' = [persistent EXCEPT ![c] = p.ret]
        /\ pending' = [pending EXCEPT ![c] = ~g.threw]
        /\ last' = Step("mount", c, p.calls \o g.calls, g.threw, g.ran,
                        g.logged)
        /\ failed' = [failed EXCEPT ![c] = FALSE]
        /\ UNCHANGED <<mode, queue>>

\* The hook body with a useEffect that has no dependency array: the effect is
\* scheduled at every render.
HookBodyNoDeps(c, k) ==
    LET p == Probe(c, store, mode)
        s == ReduceQueue(state[c], queue[c])
    IN  /\ mounted[c]
        /\ ~pending[c]
        /\ store' = p.store
        /\ key' = [key EXCEPT ![c] = k]
        /\ state' = [state EXCEPT ![c] = s]
        /\ persistent' = [persistent EXCEPT ![c] = p.ret]
        /\ queue' = [queue EXCEPT ![c] = << >>]
        /\ pending' = [pending EXCEPT ![c] = TRUE]
        /\ last' = [Step("render", c, p.calls, FALSE, FALSE, 0)
                        EXCEPT !.updates = queue[c], !.rekeyed = k # key[c]]
        /\ failed' = [failed EXCEPT ![c] = @ /\ s = state[c] /\ k = key[c]]
        /\ UNCHANGED <<mode, mounted>>

\* The hook body with an effect whose dependencies are [key, state] only.
HookBodyDepsWithoutFlag(c, k) ==
    LET p == Probe(c, store, mode)
        s == ReduceQueue(state[c], queue[c])
    IN  /\ mounted[c]
        /\ ~pending[c]
        /\ store' = p.store
        /\ key' = [key EXCEPT ![c] = k]
        /\ state' = [state EXCEPT ![c] = s]
        /\ persistent' = [persistent EXCEPT ![c] = p.ret]
        /\ queue' = [queue EXCEPT ![c] = << >>]
        /\ pending' = [pending EXCEPT ![c] = k # key[c] \/ s # state[c]]
        /\ last' = [Step("render", c, p.calls, FALSE, FALSE, 0)
                        EXCEPT !.updates = queue[c], !.rekeyed = k # key[c]]
        /\ failed' = [failed EXCEPT ![c] = @ /\ s = state[c] /\ k = key[c]]
        /\ UNCHANGED <<mode, mounted>>

\* A later call of the hook body, useLocalStorageState(k, iv): the probe runs
\* again, useState returns the state with the queued updates applied, the
\* effect is scheduled when one of its dependencies [key, state, persistent]
\* changed.
HookBody(c, k) ==
    LET p == Probe(c, store, mode)
        s == ReduceQueue(state[c], queue[c])
    IN  /\ mounted[c]
        /\ ~pending[c]
        /\ store' = p.store
        /\ key' = [key EXCEPT ![c] = k]
        /\ state' = [state EXCEPT ![c] = s]
        /\ persistent' = [persistent EXCEPT ![c] = p.ret]
        /\ queue' = [queue EXCEPT ![c] = << >>]
        /\ pending' = [pending EXCEPT ![c] =
                          k # key[c] \/ s # state[c] \/ p.ret # persistent[c]]
        /\ last' = [Step("render", c, p.calls, FALSE, FALSE, 0)
                        EXCEPT !.updates = queue[c], !.rekeyed = k # key[c]]
        /\ failed' = [failed EXCEPT ![c] = @ /\ s = state[c] /\ k = key[c]]
        /\ UNCHANGED <<mode, mounted>>

\* The re-render a setState call asked for.
Render(c) == queue[c] # << >> /\ HookBody(c, key[c])

\* A re-render the parent caused: no update is queued.
Rerender(c) == queue[c] = << >> /\ HookBody(c, key[c])

\* A re-render in which the parent passes another key.
Rekey(c, k) == k # key[c] /\ HookBody(c, k)

\* setState(u): the update is queued for the next render.
SetState(c, u, bound) ==
    /\ mounted[c]
    /\ QueuedTotal < bound
    /\ u.fn => LET s == ReduceQueue(state[c], queue[c])
               IN  s.t = "number" /\ s.n < MaxNum
    /\ queue' = [queue EXCEPT ![c] = Append(@, u)]
    /\ last' = Step("set", c, << >>, FALSE, FALSE, 0)
    /\ UNCHANGED <<store, mode, mounted, key, state, persistent, pending,
                   failed>>

\* The effect runs after the render that scheduled it.
Effect(c) ==
    LET w == WriteBack(store, mode, persistent[c], key[c], state[c])
    IN  /\ mounted[c]
        /\ pending[c]
        /\ store' = w.store
        /\ pending' = [pending EXCEPT ![c] = FALSE]
        /\ last' = Step("effect", c, w.calls, w.threw, FALSE, 0)
        /\ failed' = [failed EXCEPT ![c] = IF persistent[c] THEN w.failed
                                                               ELSE @]
        /\ UNCHANGED <<mode, mounted, key, state, persistent, queue>>

\* The component unmounts: its state and its scheduled effect are dropped.
Unmount(c) ==
    /\ mounted[c]
    /\ mounted' = [mounted EXCEPT ![c] = FALSE]
    /\ key' = [key EXCEPT ![c] = "theme"]
    /\ state' = [state EXCEPT ![c] = Num(0)]
    /\ persistent' = [persistent EXCEPT ![c] = FALSE]
    /\ queue' = [queue EXCEPT ![c] = << >>]
    /\ pending' = [pending EXCEPT ![c] = FALSE]
    /\ last' = Step("unmount", c, << >>, FALSE, FALSE, 0)
    /\ failed' = [failed EXCEPT ![c] = FALSE]
    /\ UNCHANGED <<store, mode>>

\* localStorage starts or stops failing while the page is open.
EnvChange(m) ==
    /\ mode \in WindowModes
    /\ m # mode
    /\ mode' = m
    /\ last' = Step("env", NoComp, << >>, FALSE, FALSE, 0)
    /\ UNCHANGED <<store, mounted, key, state, persistent, queue, pending,
                   failed>>

\* ------------------------------------------------------ the specifications
InitOver(ms, ks) ==
    /\ store \in [ks -> InitTexts]
    /\ mode \in ms
    /\ mounted = [c \in Comps |-> FALSE]
    /\ key = [c \in Comps |-> "theme"]
    /\ state = [c \in Comps |-> Num(0)]
    /\ persistent = [c \in Comps |-> FALSE]
    /\ queue = [c \in Comps |-> << >>]
    /\ pending = [c \in Comps |-> FALSE]
    /\ last = Step("init", NoComp, << >>, FALSE, FALSE, 0)
    /\ failed = [c \in Comps |-> FALSE]

InitWith(ms) == InitOver(ms, Keys)

\* One component, a localStorage that may fail and recover.
Init == InitWith(Modes)

Next ==
    \/ \E k \in Keys, iv \in InitialValues : Mount("A", k, iv)
    \/ \E u \in Updates : SetState("A", u, MaxShared)
    \/ Render("A")
    \/ Rerender("A")
    \/ Effect("A")
    \/ Unmount("A")
    \/ \E k \in Keys : Rekey("A", k)
    \/ \E m \in WindowModes : EnvChange(m)

Spec == Init /\ [][Next]_vars

\* One component, a localStorage every call of which fails, for ever.
InitUnavailable == InitWith({"allThrow"})

NextUnavailable ==
    \/ \E k \in Keys, iv \in InitialValues : Mount("A", k, iv)
    \/ \E u \in Updates : SetState("A", u, MaxQueue)
    \/ Render("A")
    \/ Rerender("A")
    \/ Effect("A")
    \/ Unmount("A")

SpecUnavailable == InitUnavailable /\ [][NextUnavailable]_vars

\* Two components that store numbers, a localStorage that works.
InitShared == InitWith({"ok"})

NextShared ==
    \/ \E c \in Comps, k \in Keys, iv \in InitialValues : Mount(c, k, iv)
    \/ \E c \in Comps, v \in Nums : SetState(c, Literal(v), MaxShared)
    \/ \E c \in Comps : SetState(c, Inc, MaxShared)
    \/ \E c \in Comps : Render(c)
    \/ \E c \in Comps : Rerender(c)
    \/ \E c \in Comps : Effect(c)
    \/ \E c \in Comps : Unmount(c)

SpecShared == InitShared /\ [][NextShared]_vars

\* One component that stores numbers, a localStorage that works. React runs
\* the re-render a setState asked for and the effect a render scheduled.
NextSingle ==
    \/ \E k \in Keys, iv \in InitialValues : Mount("A", k, iv)
    \/ \E v \in Nums : SetState("A", Literal(v), MaxQueue)
    \/ SetState("A", Inc, MaxQueue)
    \/ Render("A")
    \/ Rerender("A")
    \/ Effect("A")

SpecSingle ==
    /\ InitShared
    /\ [][NextSingle]_vars
    /\ WF_vars(Render("A"))
    /\ WF_vars(Effect("A"))

\* One component that stores numbers, created while localStorage works;
\* later every call of localStorage starts to throw, for good.
Revoke ==
    /\ mounted["A"]
    /\ EnvChange("allThrow")

NextRevoked ==
    \/ \E k \in Keys, iv \in InitialValues : mode = "ok" /\ Mount("A", k, iv)
    \/ \E v \in Nums : SetState("A", Literal(v), MaxQueue)
    \/ SetState("A", Inc, MaxQueue)
    \/ Render("A")
    \/ Rerender("A")
    \/ Effect("A")
    \/ Revoke

SpecRevoked == InitShared /\ [][NextRevoked]_vars

\* One component that stores numbers and whose key the parent may change,
\* three keys, a localStorage that works.
RekeyKeys == Keys \cup {"user"}

InitRekey == InitOver({"ok"}, RekeyKeys)

NextRekey ==
    \/ \E k \in RekeyKeys, iv \in InitialValues : Mount("A", k, iv)
    \/ \E v \in Nums : SetState("A", Literal(v), MaxShared)
    \/ Render("A")
    \/ Rerender("A")
    \/ \E k \in RekeyKeys : Rekey("A", k)
    \/ Effect("A")

SpecRekey == InitRekey /\ [][NextRekey]_vars

\* ------------------------------------------------------------- the claims
\* The step just taken was the mount of c, a render of c (the re-render a
\* setState asked for or one the parent caused), the effect of c.
MountStep(c) == last'.op = "mount" /\ last'.c = c /\ mounted'[c]
RenderStep(c) == last'.op = "render" /\ last'.c = c
EffectStep(c) == last'.op = "effect" /\ last'.c = c

\* The text JSON.stringify gives for a number value.
Encoded(v) == ToString(v.n)
\* The resolved initialValue of every component of the model.
Fallback == Num(0)

\* C1, as stated: at every moment after setState(v) was called on a binding d
\* (also while v still waits in d's update queue), a binding created with the
\* same key has v as its state. Stated here for the keys that are not the
\* probe's, where nothing but the timing of the write decides it.
C1_RoundTripAtEveryMoment ==
    [][\A c \in Comps, d \in Comps :
          (/\ MountStep(c) /\ d # c /\ mounted[d] /\ persistent[d]
           /\ key[d] = key'[c] /\ key[d] # testKey /\ queue[d] # << >>)
          => state'[c] = ReduceQueue(state[d], queue[d])]_vars

\* C1, amended: the round trip goes through the effect. The effect of a
\* binding d holding a number v leaves Encoded(v) at d's key; a binding
\* created with that key while the entry is still the one d wrote has v as
\* its state, unless the key is the probe's "__test__": the new binding's own
\* probe deletes the entry and its state is the fallback.
C1_RoundTripAfterEffect ==
    [][\A c \in Comps, d \in Comps :
          /\ (EffectStep(d) /\ persistent[d] /\ state[d] \in Nums)
             => store'[key[d]] = Encoded(state[d])
          /\ (/\ MountStep(c) /\ d # c /\ mounted[d] /\ ~pending[d]
              /\ key[d] = key'[c] /\ state[d] \in Nums
              /\ store[key[d]] = Encoded(state[d]))
             => state'[c] = IF key'[c] = testKey THEN Fallback ELSE state[d]]_vars

\* C1's case: B was just created with A's key after A's effect ran, and has
\* A's state, which is not the fallback.
C1_Witness ==
    /\ last.op = "mount" /\ last.c = "B" /\ mounted["A"] /\ mounted["B"]
    /\ key["A"] = "theme" /\ key["B"] = "theme" /\ ~pending["A"]
    /\ state["A"] = Num(1) /\ state["B"] = Num(1)
    /\ store["theme"] = "1"

\* C2, as stated: with a usable store, the state of a binding just created is
\* the decoded entry when the entry at its key was present and decodable and
\* the resolved fallback otherwise, and initialValue() is not called when a
\* decodable entry was there.
C2_InitialisationPolicy ==
    [][\A c \in Comps :
          (MountStep(c) /\ mode = "ok") =>
             LET item == store[key'[c]]
                 found == item # Absent /\ ~JSONparse(item).threw
             IN  /\ state'[c] = IF found THEN JSONparse(item).value
                                ELSE Fallback
                 /\ found => ~last'.ran]_vars

\* C2 for the keys that are not the probe's: there the policy holds.
C2_PolicyOffProbeKey ==
    [][\A c \in Comps :
          (MountStep(c) /\ mode = "ok" /\ key'[c] # testKey) =>
             LET item == store[key'[c]]
                 found == item # Absent /\ ~JSONparse(item).threw
             IN  /\ state'[c] = IF found THEN JSONparse(item).value
                                ELSE Fallback
                 /\ found => ~last'.ran]_vars

\* Component c has nothing left to do: no update waits, no effect is scheduled.
Quiescent(c) == mounted[c] /\ queue[c] = << >> /\ ~pending[c]

\* C3, as stated, its second half: for a single binding with a store that
\* works, once the updates are rendered and the effect has run, the entry at
\* the binding's key is the encoding of its state, and stays so.
C3_SavedWhenQuiescent ==
    Quiescent("A") => store[key["A"]] = Encoded(state["A"])

\* C3, its first half: every setState call is followed by a render that
\* takes it up, and every scheduled effect runs, leaving the encoding of the
\* state at the key.
C3_EventuallySaved ==
    /\ (queue["A"] # << >>) ~> (queue["A"] = << >>)
    /\ pending["A"] ~> (~pending["A"] /\ last.op = "effect"
                        /\ store[key["A"]] = Encoded(state["A"]))

\* C3 for the keys that are not the probe's: there the entry stays saved.
C3_SavedOffProbeKey ==
    (Quiescent("A") /\ key["A"] # testKey)
        => store[key["A"]] = Encoded(state["A"])

\* C4: a render applies the queued updaters c => c + 1 in order, each to the
\* result of the one before: n of them on a state p give p + n (5 and one
\* updater give 6); a render that changes the state schedules the effect; and
\* the effect, with a store that works, leaves at the key an entry that
\* decodes to the state the render computed.
C4_FunctionalUpdate ==
    [][\A c \in Comps :
          /\ (/\ RenderStep(c) /\ state[c] \in Nums
              /\ \A i \in 1..Len(queue[c]) : queue[c][i] = Inc)
             => state'[c] = Num(state[c].n + Len(queue[c]))
          /\ (RenderStep(c) /\ state'[c] # state[c]) => pending'[c]
          /\ (/\ EffectStep(c) /\ persistent[c] /\ mode = "ok"
              /\ state[c] \in Nums)
             => /\ ~JSONparse(store'[key[c]]).threw
                /\ JSONparse(store'[key[c]]).value = state[c]]_vars

\* C4's case: the render just made applied two updaters to 0 and gave 2.
C4_Witness ==
    /\ last.op = "render" /\ last.c = "A" /\ last.updates = <<Inc, Inc>>
    /\ state["A"] = Num(2) /\ pending["A"] /\ persistent["A"]

\* The probe's setItem call, the only call a failing store sees at a render.
ProbeSetOnly == << <<"set", testKey>> >>

\* C5, as stated: with a store every call of which fails, isPersistent is
\* false and no step after the creation of the binding calls the store.
C5_NoCallAfterConstruction ==
    /\ mounted["A"] => ~persistent["A"]
    /\ last.op # "mount" => last.calls = << >>

\* C5, amended: with a store every call of which fails, isPersistent is false
\* at every render, a render gives the state the last queued literal asked
\* for, the store's entries never change, and neither setState nor the effect
\* calls the store; but every render, the creation and each later one, runs
\* the probe again and makes its one failing setItem call on "__test__".
C5_OnlyTheProbeIsRetried ==
    /\ [](mounted["A"] => ~persistent["A"])
    /\ [](last.calls = IF last.op \in {"mount", "render"}
                       THEN ProbeSetOnly ELSE << >>)
    /\ [][/\ store' = store
          /\ (/\ RenderStep("A") /\ queue["A"] # << >>
              /\ ~queue["A"][Len(queue["A"])].fn)
             => state'["A"] = queue["A"][Len(queue["A"])].v]_vars

\* C5's case: the store fails, setState(1) was rendered, and the render made
\* the probe's call.
C5_Witness ==
    /\ mode = "allThrow" /\ last.op = "render"
    /\ last.updates = <<Literal(Num(1))>> /\ state["A"] = Num(1)
    /\ ~persistent["A"] /\ last.calls = ProbeSetOnly

\* C6: whatever the store does, no step ends with an exception that escapes
\* the hook, and the creation of a binding always gives a mounted binding
\* with a state and a flag.
C6_NoFailureSurfaced ==
    /\ ~last.threw
    /\ last.op = "mount" =>
          /\ mounted[last.c]
          /\ state[last.c] \in Vals
          /\ persistent[last.c] \in BOOLEAN

\* C6's case: a binding was just created while getItem throws; the failure
\* was logged and the state is the fallback.
C6_Witness ==
    /\ last.op = "mount" /\ mode = "getThrows" /\ mounted["A"]
    /\ persistent["A"] /\ last.logged = 1 /\ state["A"] = Fallback

\* C7, as stated: the isPersistent a mounted binding returns never changes.
C7_FlagFixedForLifetime ==
    [][\A c \in Comps :
          (mounted[c] /\ mounted'[c]) => persistent'[c] = persistent[c]]_vars

\* C7, amended: the flag is computed again by the probe at every render, the
\* creation and each later one: after a render it is true exactly when the
\* store's setItem and removeItem both work at that moment; between renders
\* (setState calls, effects, changes of the store) it does not change.
C7_FlagFollowsEachRender ==
    [][\A c \in Comps :
          /\ (MountStep(c) \/ RenderStep(c))
             => persistent'[c] = (mode \in {"ok", "getThrows"})
          /\ (/\ mounted[c] /\ mounted'[c]
              /\ ~RenderStep(c)) => persistent'[c] = persistent[c]]_vars

\* C7's case: a render with the same key that applied no update scheduled
\* the effect, so the flag changed at it: it was true and is now false.
C7_Witness ==
    /\ last.op = "render" /\ last.c = "A" /\ last.updates = << >>
    /\ ~last.rekeyed /\ pending["A"] /\ ~persistent["A"]

\* C8, as stated: a step changes the entry of a key only when it is a step of
\* a binding whose key that is.
C8_SlotIsolation ==
    [][\A k \in Keys :
          store'[k] # store[k]
             => last'.c \in Comps /\ key'[last'.c] = k]_vars

\* C8 for the entries that are not the probe's: no step of a binding with
\* another key changes them.
C8_IsolationOffProbeKey ==
    [][\A k \in Keys \ {testKey} :
          store'[k] # store[k]
             => last'.c \in Comps /\ key'[last'.c] = k]_vars

\* C9, as stated: two components mounted with the same hook (the same key),
\* once every queued update is rendered and every effect has run, read the
\* same value. Stated here for the keys that are not the probe's, where the
\* probe's deletions play no part.
C9_SharedHookInSync ==
    (/\ Quiescent("A") /\ Quiescent("B") /\ key["A"] = key["B"]
     /\ key["A"] # testKey)
        => state["A"] = state["B"]

\* C10, as stated: B's accessor invoked afresh (B mounts) after A's write of
\* v reached the store gives v; and no step of A changes B's state.
C10_FreshReadSeesUpdate ==
    [][/\ (/\ MountStep("B") /\ Quiescent("A") /\ key["A"] = key'["B"]
           /\ state["A"] \in Nums
           /\ store[key["A"]] = Encoded(state["A"]))
          => state'["B"] = state["A"]
       /\ (last'.c = "A" /\ mounted["B"]) => state'["B"] = state["B"]]_vars

\* C10 for the keys that are not the probe's: there the fresh read gives v.
C10_FreshReadOffProbeKey ==
    [][/\ (/\ MountStep("B") /\ Quiescent("A") /\ key["A"] = key'["B"]
           /\ key["A"] # testKey /\ state["A"] \in Nums
           /\ store[key["A"]] = Encoded(state["A"]))
          => state'["B"] = state["A"]
       /\ (last'.c = "A" /\ mounted["B"]) => state'["B"] = state["B"]]_vars

\* C11, as stated: a write that failed changes neither the state nor the
\* store, and while state and key stay the same the effect never tries the
\* write again.
C11_FailedWriteNeverRetried ==
    [][\A c \in Comps :
          EffectStep(c) =>
              /\ state' = state
              /\ failed'[c] => store' = store
              /\ (failed[c] /\ key[c] # testKey) => ~persistent[c]]_vars

\* C11, amended: a write that failed changes neither the state nor the store
\* (no rollback), and a render that leaves key, state and `persistent` as
\* they were does not schedule the effect; but a render at which `persistent`
\* changes while key and state stay the same does schedule it, and the
\* effect then tries the same write again when `persistent` is true.
C11_RetriedOnDependencyChange ==
    [][\A c \in Comps :
          /\ EffectStep(c) =>
                /\ state' = state
                /\ failed'[c] => store' = store
                /\ ~pending'[c]
          /\ (/\ RenderStep(c) /\ failed[c]
              /\ state'[c] = state[c] /\ key'[c] = key[c]) =>
                (pending'[c] <=> persistent'[c] # persistent[c])
          /\ (EffectStep(c) /\ failed[c]) =>
                IF persistent[c]
                THEN failed'[c] \/ last'.calls = << <<"set", key[c]>> >>
                ELSE failed'[c] /\ last'.calls = << >>]_vars

\* C11's case: setState(1) was rendered while the store worked, the store
\* then failed, and the effect's setItem threw: the state is 1, the entry is
\* not.
C11_Witness ==
    /\ last.op = "effect" /\ last.c = "A" /\ failed["A"]
    /\ last.calls = << <<"set", key["A"]>> >>
    /\ mode = "allThrow" /\ persistent["A"]
    /\ state["A"] = Num(1) /\ store[key["A"]] # Encoded(Num(1))

\* Whether the creation of the binding of component c, just made, caught a
\* failure of getItem or of JSON.parse.
DecodeFailed(c) ==
    /\ persistent[c]
    /\ \/ mode = "getThrows"
       \/ store[key[c]] # Absent /\ JSONparse(store[key[c]]).threw

\* C12, as stated: a creation that caught a decode failure and an effect
\* whose write failed each made one console.error call, and a step that did
\* neither made none.
C12_EveryFailureReported ==
    last.logged =
        IF \/ last.op = "mount" /\ DecodeFailed(last.c)
           \/ last.op = "effect" /\ failed[last.c]
        THEN 1 ELSE 0

\* C12, amended: console.error is called once by a creation that caught a
\* failure of getItem or JSON.parse, and by no other step: a probe that
\* failed reports nothing, and neither does an effect whose JSON.stringify or
\* setItem threw (its catch is empty).
C12_OnlyDecodeFailureReported ==
    /\ last.logged = IF last.op = "mount" /\ DecodeFailed(last.c) THEN 1 ELSE 0
    /\ (last.op = "effect" /\ failed[last.c]) => last.logged = 0
    /\ (last.op \in {"mount", "render"} /\ ~persistent[last.c]) =>
          last.logged = 0

\* C12's case: the effect just tried to write a cyclic object, JSON.stringify
\* threw, and nothing was reported.
C12_Witness ==
    /\ last.op = "effect" /\ last.c = "A" /\ failed["A"]
    /\ persistent["A"] /\ state["A"] = Cyclic /\ last.logged = 0

\* Whether the effect of component c just ran and its setItem succeeded.
WroteBack(c) ==
    /\ last.op = "effect" /\ last.c = c
    /\ last.calls # << >> /\ ~failed[c]

\* C13, as stated: right after a successful write the entry decodes to the
\* state, and a step of a binding whose flag is false calls the store not at
\* all.
C13_NoAccessWhenFlagFalse ==
    \A c \in Comps :
        /\ WroteBack(c) =>
              /\ ~JSONparse(store[key[c]]).threw
              /\ JSONparse(store[key[c]]).value = state[c]
        /\ (mounted[c] /\ last.c = c /\ ~persistent[c]) => last.calls = << >>

\* C13, amended: right after a successful write the entry decodes to the
\* state; a step of a binding that leaves its flag false never reads the
\* store and never calls it at the binding's key on behalf of the state: the
\* effect makes no call, the creation and the renders make the probe's calls
\* on "__test__" only, and only the entry under "__test__" can change.
C13_OnlyProbeWhenFlagFalse ==
    /\ [](\A c \in Comps :
            /\ WroteBack(c) =>
                  /\ ~JSONparse(store[key[c]]).threw
                  /\ JSONparse(store[key[c]]).value = state[c]
            /\ (mounted[c] /\ last.c = c /\ ~persistent[c]) =>
                  /\ last.op = "effect" => last.calls = << >>
                  /\ \A i \in 1..Len(last.calls) :
                        /\ last.calls[i][1] # "get"
                        /\ last.calls[i][2] = testKey)
    /\ [][\A c \in Comps :
            (last'.c = c /\ mounted'[c] /\ ~persistent'[c]) =>
                \A k \in Keys \ {testKey} : store'[k] = store[k]]_vars

\* C13's case: a binding that wrote its state 1 while the store worked was
\* rendered again after removeItem started to throw: its flag is false, and
\* the render called the store twice and left the probe's entry behind.
C13_Witness ==
    /\ last.op = "render" /\ last.c = "A" /\ ~persistent["A"]
    /\ key["A"] = "theme" /\ state["A"] = Num(1)
    /\ store["theme"] = Encoded(Num(1))
    /\ mode = "removeThrows" /\ store[testKey] = testText
    /\ last.calls = << <<"set", testKey>>, <<"remove", testKey>> >>

\* C14, as stated: once the store has started to throw, the effect that
\* follows the render of a setState call still finds `persistent` true and
\* calls setItem on the binding's key.
C14_KeepsWritingAfterRevocation ==
    [][\A c \in Comps :
          (/\ EffectStep(c) /\ mode = "allThrow"
           /\ last.op = "render" /\ last.updates # << >>) =>
              /\ persistent[c]
              /\ last'.calls = << <<"set", key[c]>> >>]_vars

\* C14, amended: once the store has started to throw, every render runs the
\* probe again, whose setItem on "__test__" throws, and finds `persistent`
\* false, so the effect that follows it calls the store not at all; only an
\* effect scheduled by a render made before the store failed still calls
\* setItem on the binding's key, and that call fails with nothing reported.
\* No entry changes.
C14_RevocationSeenAtNextRender ==
    [][\A c \in Comps :
          /\ (RenderStep(c) /\ mode = "allThrow") =>
                /\ ~persistent'[c]
                /\ last'.calls = ProbeSetOnly
                /\ store' = store
          /\ (EffectStep(c) /\ mode = "allThrow") =>
                /\ store' = store
                /\ last'.logged = 0
                /\ last'.calls = IF persistent[c]
                                  THEN << <<"set", key[c]>> >> ELSE << >>
                /\ last.op = "render" => ~persistent[c]]_vars

\* C14's case: a binding created with a working store; the store failed,
\* setState(1) was rendered, and the effect just ran without calling the
\* store: the state is 1, the entry is not.
C14_Witness ==
    /\ last.op = "effect" /\ last.c = "A" /\ last.calls = << >>
    /\ mode = "allThrow" /\ ~persistent["A"] /\ ~failed["A"]
    /\ key["A"] = "theme" /\ state["A"] = Num(1)
    /\ store["theme"] # Encoded(Num(1))

\* C15, as stated: setState(v) twice gives what setState(v) once gives, the
\* state v; and where setState(v) has given the state v and the entry v,
\* the render of another setState(v) leaves the state v and the entry v.
C15_SetterIdempotent ==
    [][\A c \in Comps, v \in Nums :
          /\ (RenderStep(c) /\ queue[c] = <<Literal(v), Literal(v)>>) =>
                state'[c] = v
          /\ (/\ RenderStep(c) /\ queue[c] = <<Literal(v)>>
              /\ state[c] = v /\ store[key[c]] = Encoded(v)) =>
                /\ state'[c] = v
                /\ store'[key[c]] = Encoded(v)
                /\ ~last'.threw]_vars

\* C15 for every key but "__test__": it holds, and the store as a whole is
\* left as it was but for the probe's entry.
C15_IdempotentOffProbeKey ==
    [][\A c \in Comps, v \in Nums :
          /\ (RenderStep(c) /\ queue[c] = <<Literal(v), Literal(v)>>) =>
                state'[c] = v
          /\ (/\ RenderStep(c) /\ queue[c] = <<Literal(v)>>
              /\ key[c] # testKey
              /\ state[c] = v /\ store[key[c]] = Encoded(v)) =>
                /\ state'[c] = v
                /\ store'[key[c]] = Encoded(v)
                /\ ~pending'[c]
                /\ ~last'.threw]_vars

\* C15's case off the probe's key: the state and the entry were 1 and the
\* render just made applied another setState(1).
C15_OffProbeKeyWitness ==
    /\ last.op = "render" /\ last.c = "A"
    /\ last.updates = <<Literal(Num(1))>>
    /\ key["A"] = "theme" /\ state["A"] = Num(1) /\ ~pending["A"]
    /\ store["theme"] = Encoded(Num(1))

C17_WriteOnMount ==
    [][\A c \in Comps :
          /\ MountStep(c) =>
                /\ persistent'[c] /\ pending'[c]
                /\ (\/ store'[key'[c]] = Absent
                    \/ JSONparse(store'[key'[c]]).threw) =>
                      state'[c] = Fallback
          /\ (EffectStep(c) /\ last.op = "mount") =>
                /\ last.c = c
                /\ store'[key[c]] = Encoded(state[c])
                /\ ~JSONparse(store'[key[c]]).threw
                /\ JSONparse(store'[key[c]]).value = state[c]
                /\ ~pending'[c]]_vars

\* C17's case: a binding was just created on an entry that does not parse;
\* its state is the fallback, no setState is queued, the effect is scheduled.
C17_Witness ==
    /\ last.op = "mount" /\ last.c = "A" /\ persistent["A"]
    /\ key["A"] = "theme" /\ store["theme"] = Corrupt
    /\ state["A"] = Fallback /\ queue["A"] = << >> /\ pending["A"]

\* C18: a binding created while the probe fails does not read the entry and
\* takes the fallback; the render at which the probe succeeds again
\* schedules the effect though the state did not change; and the effect,
\* when setItem works, replaces the entry, whatever it was, by the text of
\* the state.
C18_UnreadEntryOverwritten ==
    [][\A c \in Comps :
          /\ (MountStep(c) /\ ~persistent'[c]) =>
                /\ state'[c] = Fallback
                /\ \A i \in 1..Len(last'.calls) : last'.calls[i][1] # "get"
                /\ \A k \in Keys \ {testKey} : store'[k] = store[k]
          /\ (RenderStep(c) /\ ~persistent[c] /\ persistent'[c]) =>
                pending'[c]
          /\ (/\ EffectStep(c) /\ persistent[c]
              /\ state[c] \in Nums /\ mode \notin {"allThrow", "noWindow"}) =>
                store'[key[c]] = Encoded(state[c])]_vars

\* C18's case: the state is the fallback 0 and the entry "2"; the render
\* just made, with the same key and no update, found the probe working again
\* and scheduled the effect that will replace the entry.
C18_Witness ==
    /\ last.op = "render" /\ last.c = "A" /\ last.updates = << >>
    /\ ~last.rekeyed /\ pending["A"] /\ persistent["A"] /\ ~failed["A"]
    /\ key["A"] = "theme" /\ state["A"] = Fallback
    /\ store["theme"] = Encoded(Num(2))

\* C19, as stated: a render with another key keeps the state (with no update
\* queued it is the state of before), schedules the effect and leaves the
\* entry under the old key as it was; the effect then writes the state under
\* the new key and leaves every other entry as it was.
C19_KeyChange ==
    [][\A c \in Comps :
          /\ (RenderStep(c) /\ key'[c] # key[c]) =>
                /\ queue[c] = << >> => state'[c] = state[c]
                /\ pending'[c]
                /\ store'[key[c]] = store[key[c]]
          /\ (EffectStep(c) /\ last.rekeyed) =>
                /\ store'[key[c]] = Encoded(state[c])
                /\ \A k \in RekeyKeys \ {key[c]} : store'[k] = store[k]]_vars

\* C19 for every old key but "__test__": it holds.
C19_KeyChangeOffProbeKey ==
    [][\A c \in Comps :
          /\ (RenderStep(c) /\ key'[c] # key[c]) =>
                /\ queue[c] = << >> => state'[c] = state[c]
                /\ pending'[c]
                /\ key[c] # testKey => store'[key[c]] = store[key[c]]
          /\ (EffectStep(c) /\ last.rekeyed) =>
                /\ store'[key[c]] = Encoded(state[c])
                /\ \A k \in RekeyKeys \ {key[c]} : store'[k] = store[k]]_vars

\* C19's case off the probe's key: the binding went from "theme" to "user"
\* with the state 1; the effect wrote 1 under "user" over the entry 2 that
\* was never read, and the entry under "theme" is still 1.
C19_OffProbeKeyWitness ==
    /\ last.op = "effect" /\ last.c = "A" /\ key["A"] = "user"
    /\ state["A"] = Num(1) /\ store["user"] = Encoded(Num(1))
    /\ store["theme"] = Encoded(Num(1))

=============================================================================
